---- MODULE Spec2Model ----
(***************************************************************************)
(* Model of packages/dd-trace/src/instrumenter.js: the Instrumenter class  *)
(* (plugin registry and orchestrator), its configuration resolver and its  *)
(* wrap engine.  The platform Loader, the integrations' patch / unpatch    *)
(* capabilities and shimmer are collaborators: they are modelled at the    *)
(* interface the Instrumenter uses, with every outcome they can produce.   *)
(***************************************************************************)
EXTENDS Integers, Sequences, FiniteSets, TLC

\* ----------------------------------------------------------------- bounds
\* Number of distinct exports objects of the "foo" component that can load.
NumExports == 2
\* The per-(unit, exports) capability-invocation counter saturates here.
MaxCount == 2
\* Number of wrap engine calls in one run.
MaxWrapCalls == 2
\* calls of wrap / unwrap / prepatch in one run over a single object
MaxStageCalls == 3
\* calls of wrapExport / unwrapExport in one run
MaxExportCalls == 3
\* patch capabilities running at once, one inside the other
MaxDepth == 3

\* ------------------------------------------------------------ JS values
Undefined == "undefined"
NoExports == -1
EmptyMap == [x \in {} |-> 0]

Remove(f, k) == [x \in DOMAIN f \ {k} |-> f[x]]

RECURSIVE SortedSeq(_)
SortedSeq(S) ==
  IF S = {} THEN <<>>
  ELSE LET m == CHOOSE x \in S : \A y \in S : x <= y
       IN <<m>> \o SortedSeq(S \ {m})

\* ------------------------------------------------------------- catalog
\* platform.plugins: catalog name -> plugin.  "foo" is an array of two
\* instrumentation units, "bar" is a single instrumentation object.
plugins == [foo |-> "PFoo", bar |-> "B1"]
PluginNames == <<"foo", "bar">>
Units == {"F1", "F2", "B1"}
UnitOrder == <<"F1", "F2", "B1">>

\* [].concat(plugin)
concat(plugin) == IF plugin = "PFoo" THEN <<"F1", "F2">> ELSE <<plugin>>

\* plugins[key]: undefined when the catalog has no such key
lookup(key) == IF key \in DOMAIN plugins THEN plugins[key] ELSE Undefined

\* Names handed to use().
UseNames == {"foo", "FOO", "bar", "nope"}
toLowerCase(name) == IF name = "FOO" THEN "foo" ELSE name
toUpperCase(name) ==
  CASE name = "foo" -> "FOO"
    [] name = "bar" -> "BAR"
    [] name = "nope" -> "NOPE"
    [] OTHER -> name

\* Exports objects each instrumentation unit matches: F1 matches every
\* loaded version of the foo component, F2 only version 1, B1 the bar
\* component's single exports object.
Matches(u) ==
  CASE u = "F1" -> 1..NumExports
    [] u = "F2" -> {1}
    [] u = "B1" -> {0}
    [] OTHER -> {}
Exports == 0..NumExports
Pairs == {p \in Units \X Exports : p[2] \in Matches(p[1])}

\* ------------------------------------------------ configuration resolver
\* Numbers are held in hundredths (0.3 is 30); NaN is a value of its own.
NaN == [nan |-> TRUE, val |-> 0]
Num(n) == [nan |-> FALSE, val |-> n]

\* The numeric conversion Math.max applies to its argument.
ToNumber(v) ==
  CASE v = "0" -> Num(0)
    [] v = "" -> Num(0)
    [] v = "0.3" -> Num(30)
    [] v = "0.5" -> Num(50)
    [] v = "1" -> Num(100)
    [] v = "1.5" -> Num(150)
    [] v = "-1" -> Num(-100)
    [] OTHER -> NaN

MathMax(a, b) == IF a.nan \/ b.nan THEN NaN ELSE IF a.val >= b.val THEN a ELSE b
MathMin(a, b) == IF a.nan \/ b.nan THEN NaN ELSE IF a.val <= b.val THEN a ELSE b

\* util.isTrue / util.isFalse: explicit true / false strings only
isTrue(str) == str \in {"true", "TRUE"}
isFalse(str) == str \in {"false", "FALSE"}

\* config.analytics: unset, a boolean, or a number
AUnset == [kind |-> "undefined", val |-> 0]
ABool(b) == [kind |-> "boolean", val |-> IF b THEN 1 ELSE 0]
ANum(n) == [kind |-> "number", val |-> n]

\* config.enabled is "true", "false" or Undefined
EmptyConfig == [enabled |-> Undefined, analytics |-> AUnset]

EnvSuffixes == {"ENABLED", "ANALYTICS_ENABLED", "ANALYTICS_SAMPLE_RATE"}
EnvKeys == {"FOO", "BAR", "NOPE"} \X EnvSuffixes

\* cleanEnv(`${name}_${suffix}`): the key is upper-cased, so "foo" and
\* "FOO" read the same variable.
cleanEnv(e, name, suffix) == e[<<toUpperCase(name), suffix>>]

getConfig(e, name, config) ==
  IF name = "" \/ name = Undefined THEN config
  ELSE
    LET enabled == cleanEnv(e, name, "ENABLED")
        c1 == IF enabled # Undefined
              THEN [config EXCEPT !.enabled = IF isTrue(enabled) THEN "true" ELSE "false"]
              ELSE config
        analyticsEnabled == cleanEnv(e, name, "ANALYTICS_ENABLED")
        analyticsSampleRate ==
          MathMin(MathMax(ToNumber(cleanEnv(e, name, "ANALYTICS_SAMPLE_RATE")), Num(0)),
                  Num(100))
    IN IF isFalse(analyticsEnabled) THEN [c1 EXCEPT !.analytics = ABool(FALSE)]
       ELSE IF ~analyticsSampleRate.nan
            THEN [c1 EXCEPT !.analytics = ANum(analyticsSampleRate.val)]
       ELSE IF isTrue(analyticsEnabled) THEN [c1 EXCEPT !.analytics = ABool(TRUE)]
       ELSE c1

\* The config argument of use(): a boolean shorthand, nothing, or an object.
CfgBool(b) == [t |-> "boolean", b |-> b, obj |-> EmptyConfig]
CfgNone == [t |-> "undefined", b |-> Undefined, obj |-> EmptyConfig]
CfgObj(o) == [t |-> "object", b |-> Undefined, obj |-> o]

\* typeof config === 'boolean' ? { enabled: config } : config (default {})
normalize(config) ==
  IF config.t = "boolean"
  THEN [enabled |-> config.b, analytics |-> AUnset]
  ELSE config.obj

\* No getConfig call was made yet.
NotResolved == [name |-> "", overrides |-> EmptyConfig, config |-> EmptyConfig]

\* The environment of the orchestrator runs.
EnvNone == [k \in EnvKeys |-> Undefined]
EnvOrch == [EnvNone EXCEPT ![<<"FOO", "ENABLED">>] = "false",
                           ![<<"BAR", "ANALYTICS_SAMPLE_RATE">>] = "0.5"]

\* DD_TRACE_DISABLED_PLUGINS after split(','): a sequence of entries, each
\* a sequence of tokens where " " is white space.  An unset or empty
\* variable is the empty sequence.
trim(entry) == SelectSeq(entry, LAMBDA t : t # " ")[1]
collectDisabledPlugins(disabldPlugins) ==
  {trim(disabldPlugins[i]) : i \in DOMAIN disabldPlugins}
DisabledSettings == {<<>>, << <<" ", "foo">> >>}

\* The exports objects handed to wrapExport / unwrapExport.
ExportIds == {"E1", "E2"}

\* --------------------------------------------------------------- state
VARIABLES
  env,               \* platform.env: the configuration source
  _enabled,          \* this._enabled
  _plugins,          \* this._plugins: plugin -> {name, config}
  _instrumented,     \* this._instrumented: instrumentation -> Set(exports)
  _disabledPlugins,  \* this._disabledPlugins
  modules,           \* exports objects of the components loaded so far
  hooked,            \* the Loader holds the registry (reload was called)
  nPatch,            \* per (unit, exports): patch capability invocations
                     \* since the unit's last unload
  op,                \* the last operation called and its arguments
  calls,             \* collaborator invocations made by the last operation
  threw,             \* the last operation threw to its caller
  members,           \* wrap engine: nodule -> member name -> value
  heap,              \* wrap engine: the function objects, by identity
  shimmed,           \* shimmer.wrap invocations made by the last operation
  wargs,             \* the nodules and names the last wrap engine call was given
  ncalls,            \* wrap engine calls made so far
  resolved,          \* the last getConfig call: its arguments and its result
  exported,          \* wrapExport: exports object -> is it a function, and
                     \* the value of its _datadog_wrapper property
  shims,             \* wrapExport: the shims returned so far
  frames,            \* the (unit, exports) pairs whose patch capability is
                     \* running, outermost first
  nNotified          \* per (unit, exports): calls of patch made while
                     \* capabilities may be running

orchVars == <<env, _enabled, _plugins, _instrumented, _disabledPlugins, modules,
              hooked, nPatch>>
wrapVars == <<members, heap, shimmed, wargs, ncalls>>
exportVars == <<exported, shims>>
nestVars == <<frames, nNotified>>
vars == <<orchVars, op, calls, threw, wrapVars, resolved, exportVars, nestVars>>

\* ------------------------------------------------------- orchestrator
\* The operations are written over a record st of the Instrumenter's
\* fields (enabled, plugins, instrumented), the Loader's view (modules),
\* and the bookkeeping of the call in progress (calls, threw, nPatch).
\* pt / ut are the (unit, exports) pairs on which the integration's
\* patch / unpatch capability throws during this call, lt whether the
\* Loader's load step throws when handed an undefined instrumentation.

NoReg == EmptyMap
Event(c, u, e, ok, reg) == [c |-> c, u |-> u, e |-> e, ok |-> ok, reg |-> reg]

Bump(n) == IF n < MaxCount THEN n + 1 ELSE n

\* patch without the membership test of line 280
patchAlways(st, instrumentation, moduleExports, config, pt) ==
  LET s1 == IF instrumentation \notin DOMAIN st.instrumented
            THEN [st EXCEPT !.instrumented = (instrumentation :> {}) @@ @]
            ELSE st
  IN [s1 EXCEPT
        !.instrumented[instrumentation] = @ \cup {moduleExports},
        !.nPatch[instrumentation][moduleExports] = Bump(@),
        !.calls = Append(@, Event("patch", instrumentation, moduleExports,
                                  <<instrumentation, moduleExports>> \notin pt,
                                  NoReg)),
        !.threw = (<<instrumentation, moduleExports>> \in pt)]

\* Instrumenter.patch, lines 273-284
patch(st, instrumentation, moduleExports, config, pt) ==
  LET s1 == IF instrumentation \notin DOMAIN st.instrumented
            THEN [st EXCEPT !.instrumented = (instrumentation :> {}) @@ @]
            ELSE st
  IN IF moduleExports \notin s1.instrumented[instrumentation]
     THEN [s1 EXCEPT
             !.instrumented[instrumentation] = @ \cup {moduleExports},
             !.nPatch[instrumentation][moduleExports] = Bump(@),
             !.calls = Append(@, Event("patch", instrumentation, moduleExports,
                                       <<instrumentation, moduleExports>> \notin pt,
                                       NoReg)),
             !.threw = (<<instrumentation, moduleExports>> \in pt)]
     ELSE s1

\* patch that adds moduleExports to the set only after the capability
\* returned: up to the invocation it leaves the set as it was
patchEnterLate(st, instrumentation, moduleExports) ==
  LET s1 == IF instrumentation \notin DOMAIN st.instrumented
            THEN [st EXCEPT !.instrumented = (instrumentation :> {}) @@ @]
            ELSE st
  IN IF moduleExports \notin s1.instrumented[instrumentation]
     THEN [s1 EXCEPT
             !.nPatch[instrumentation][moduleExports] = Bump(@),
             !.frames = Append(@, <<instrumentation, moduleExports>>)]
     ELSE s1

\* Instrumenter.patch from its first line up to the moment the capability
\* starts running, lines 274-282: the capability's frame is pushed, and
\* patch returns (line 282) when the capability does.
patchEnter(st, instrumentation, moduleExports) ==
  LET s1 == IF instrumentation \notin DOMAIN st.instrumented
            THEN [st EXCEPT !.instrumented = (instrumentation :> {}) @@ @]
            ELSE st
  IN IF moduleExports \notin s1.instrumented[instrumentation]
     THEN [s1 EXCEPT
             !.instrumented[instrumentation] = @ \cup {moduleExports},
             !.nPatch[instrumentation][moduleExports] = Bump(@),
             !.frames = Append(@, <<instrumentation, moduleExports>>)]
     ELSE s1

\* unpatch without the try / catch of lines 291-295: the first throwing
\* unpatch capability ends the loop
RECURSIVE unpatchEachAbort(_, _, _, _)
unpatchEachAbort(st, instrumentation, exportsSeq, ut) ==
  IF exportsSeq = <<>> THEN st
  ELSE LET s1 == [st EXCEPT !.calls = Append(@, Event("unpatch", instrumentation,
                                                      Head(exportsSeq),
                                                      <<instrumentation, Head(exportsSeq)>> \notin ut,
                                                      NoReg))]
       IN IF <<instrumentation, Head(exportsSeq)>> \in ut THEN s1
          ELSE unpatchEachAbort(s1, instrumentation, Tail(exportsSeq), ut)

\* Instrumenter.unpatch, lines 286-298
RECURSIVE unpatchEach(_, _, _, _)
unpatchEach(st, instrumentation, exportsSeq, ut) ==
  IF exportsSeq = <<>> THEN st
  ELSE unpatchEach(
         [st EXCEPT !.calls = Append(@, Event("unpatch", instrumentation, Head(exportsSeq),
                                              <<instrumentation, Head(exportsSeq)>> \notin ut,
                                              NoReg))],
         instrumentation, Tail(exportsSeq), ut)

\* unpatch whose loop ends at the first throwing unpatch capability
unpatchAbort(st, instrumentation, ut) ==
  IF instrumentation \in DOMAIN st.instrumented
  THEN unpatchEachAbort(st, instrumentation, SortedSeq(st.instrumented[instrumentation]), ut)
  ELSE st

unpatch(st, instrumentation, ut) ==
  IF instrumentation \in DOMAIN st.instrumented
  THEN unpatchEach(st, instrumentation, SortedSeq(st.instrumented[instrumentation]), ut)
  ELSE st

\* Instrumenter.unload, lines 227-241
RECURSIVE unloadEach(_, _, _)
unloadEach(st, instrumentations, ut) ==
  IF instrumentations = <<>> THEN st
  ELSE LET i == Head(instrumentations)
           s1 == unpatch(st, i, ut)
           s2 == [s1 EXCEPT !.instrumented = Remove(@, i),
                            !.nPatch = IF i \in DOMAIN @
                                       THEN [@ EXCEPT ![i] = [e \in Exports |-> 0]]
                                       ELSE @]
       IN unloadEach(s2, Tail(instrumentations), ut)

\* unload that forgets to drop the registration (line 237)
unloadKeepsEntry(st, plugin, ut) == unloadEach(st, concat(plugin), ut)

unload(st, plugin, ut) ==
  LET s1 == unloadEach(st, concat(plugin), ut)
  IN IF plugin \in DOMAIN s1.plugins
     THEN [s1 EXCEPT !.plugins = Remove(@, plugin)]
     ELSE s1

\* Loader.load(instrumentation, config): hands every already loaded
\* component that matches the instrumentation to Instrumenter.patch.
RECURSIVE loaderLoadEach(_, _, _, _, _)
loaderLoadEach(st, instrumentation, exportsSeq, config, pt) ==
  IF exportsSeq = <<>> \/ st.threw THEN st
  ELSE loaderLoadEach(patch(st, instrumentation, Head(exportsSeq), config, pt),
                      instrumentation, Tail(exportsSeq), config, pt)

loaderLoad(st, instrumentation, config, pt, lt) ==
  LET s1 == [st EXCEPT !.calls = Append(@, Event("load", instrumentation, NoExports,
                                                 instrumentation # Undefined \/ ~lt,
                                                 NoReg))]
  IN IF instrumentation = Undefined
     THEN [s1 EXCEPT !.threw = lt]
     ELSE loaderLoadEach(s1, instrumentation,
                         SortedSeq(st.modules \cap Matches(instrumentation)),
                         config, pt)

\* Loader.reload(registry)
loaderReload(st) ==
  [st EXCEPT !.calls = Append(@, Event("reload", Undefined, NoExports, TRUE,
                                       st.plugins)),
             !.hooked = TRUE]

\* Instrumenter.load, lines 205-225
RECURSIVE loadEach(_, _, _, _, _)
loadEach(st, instrumentations, config, pt, lt) ==
  IF instrumentations = <<>> \/ st.threw THEN st
  ELSE loadEach(loaderLoad(st, Head(instrumentations), config, pt, lt),
                Tail(instrumentations), config, pt, lt)

\* load without the try / catch of lines 213-224
loadNoCatch(st, plugin, meta, pt, ut, lt) ==
  IF ~st.enabled THEN st
  ELSE loadEach(st, concat(plugin), meta.config, pt, lt)

load(st, plugin, meta, pt, ut, lt) ==
  IF ~st.enabled THEN st
  ELSE LET s1 == loadEach(st, concat(plugin), meta.config, pt, lt)
       IN IF s1.threw
          THEN unload([s1 EXCEPT !.threw = FALSE], plugin, ut)
          ELSE s1

\* Instrumenter._set, lines 300-307
_set(st, plugin, meta, pt, ut, lt) ==
  IF meta.name \in st.disabledPlugins
  THEN st
  ELSE load([st EXCEPT !.plugins = (plugin :> meta) @@ @], plugin, meta, pt, ut, lt)

\* use that reloads before registering
useReloadFirst(st, name, config, pt, ut, lt) ==
  LET cfg == getConfig(st.env, name, normalize(config))
      s0 == IF st.enabled THEN loaderReload(st) ELSE st
      s1 == _set(s0, lookup(toLowerCase(name)), [name |-> name, config |-> cfg], pt, ut, lt)
  IN [s1 EXCEPT !.threw = FALSE]

\* Instrumenter.use, lines 75-91
use(st, name, config, pt, ut, lt) ==
  LET cfg == getConfig(st.env, name, normalize(config))
      s1 == _set(st, lookup(toLowerCase(name)), [name |-> name, config |-> cfg], pt, ut, lt)
      s2 == [s1 EXCEPT !.threw = FALSE]
  IN IF s2.enabled THEN loaderReload(s2) ELSE s2

\* Instrumenter.enable, lines 93-107
RECURSIVE enableEach(_, _, _, _, _)
enableEach(st, names, pt, ut, lt) ==
  IF names = <<>> \/ st.threw THEN st
  ELSE LET name == Head(names)
       IN enableEach(_set(st, plugins[name],
                          [name |-> name, config |-> getConfig(st.env, name, EmptyConfig)],
                          pt, ut, lt),
                     Tail(names), pt, ut, lt)

\* enable without the filter of line 100: registered plugins are set again
enableNoFilter(st, registerPlugins, pt, ut, lt) ==
  LET s1 == [st EXCEPT !.enabled = TRUE]
      s2 == IF registerPlugins THEN enableEach(s1, PluginNames, pt, ut, lt) ELSE s1
  IN IF s2.threw THEN s2 ELSE loaderReload(s2)

enable(st, registerPlugins, pt, ut, lt) ==
  LET s1 == [st EXCEPT !.enabled = TRUE]
      names == SelectSeq(PluginNames, LAMBDA name : plugins[name] \notin DOMAIN s1.plugins)
      s2 == IF registerPlugins THEN enableEach(s1, names, pt, ut, lt) ELSE s1
  IN IF s2.threw THEN s2 ELSE loaderReload(s2)

\* Instrumenter.disable, lines 109-117
RECURSIVE disableEach(_, _, _)
disableEach(st, instrumentations, ut) ==
  IF instrumentations = <<>> THEN st
  ELSE disableEach(unpatch(st, Head(instrumentations), ut), Tail(instrumentations), ut)

disable(st, ut) ==
  LET s1 == disableEach(st, SelectSeq(UnitOrder, LAMBDA u : u \in DOMAIN st.instrumented), ut)
  IN loaderReload([s1 EXCEPT !.plugins = EmptyMap, !.enabled = FALSE])

\* --------------------------------------------------------- wrap engine
\* A member of a nodule is absent, a value that is not a function, or a
\* function object, named by its index in the heap.
Missing == 0
NonFn == -1
Null == 0
Nodules == <<"A", "B">>
Names == <<"f", "g">>
IsFn(m) == m >= 1

\* A function object.  kind "base" is a function of the instrumented
\* library; "wrapper" is what an integration's wrapper factory returned for
\* the function target; "prepatch" is getPrepatchWrappedFunction(target).
\* patched / hasWrapped say whether the own properties _datadog_patched and
\* _datadog_wrapped exist, wrapped is the value of _datadog_wrapped, and
\* original is shimmer's __original (Null when shimmer did not install it).
Fn(kind, factory, target, hasWrapped, wrapped) ==
  [kind |-> kind, factory |-> factory, target |-> target, patched |-> FALSE,
   hasWrapped |-> hasWrapped, wrapped |-> wrapped, original |-> Null]
BaseFn == Fn("base", "none", Null, FALSE, Null)

Factories == {"A", "B"}
PrepatchFactory == "prepatch"

\* getPrepatchWrappedFunction, lines 46-61: the staged callable, whose
\* _datadog_wrapped is fn until a wrap replaces it
getPrepatchWrappedFunction(fn) == Fn("prepatch", PrepatchFactory, fn, TRUE, fn)

\* wrapper(fn): the function object a factory returns.
Produce(factory, fn) ==
  IF factory = PrepatchFactory
  THEN getPrepatchWrappedFunction(fn)
  ELSE Fn("wrapper", factory, fn, FALSE, Null)

\* What one invocation of function object f runs, outermost first: the
\* factories whose wrappers run, then "base" for the library function, or
\* "crash" when the chain ends in a call of null.
RECURSIVE Run(_, _, _)
Run(h, f, fuel) ==
  IF f = Null \/ fuel = 0 THEN <<"crash">>
  ELSE CASE h[f].kind = "base" -> <<"base">>
         [] h[f].kind = "wrapper" -> <<h[f].factory>> \o Run(h, h[f].target, fuel - 1)
         [] OTHER ->
              Run(h, IF h[f].wrapped # Null THEN h[f].wrapped ELSE h[f].target, fuel - 1)

\* The record the wrap engine works on.
\* shimmer.wrap(nodule, name, fn => wrapper(fn)), as used at lines 147-160
shimmerWrap(w, nodule, name, factory) ==
  LET f == w.members[nodule][name]
      id == Len(w.heap) + 1
  IN IF ~IsFn(f) THEN w
     ELSE [w EXCEPT !.heap = Append(@, [Produce(factory, f) EXCEPT !.original = f]),
                    !.members[nodule][name] = id,
                    !.shimmed = @ + 1]

\* shimmer.unwrap(nodule, name), as used at line 174
shimmerUnwrap(w, nodule, name) ==
  LET f == w.members[nodule][name]
  IN IF IsFn(f) /\ w.heap[f].original # Null
     THEN [w EXCEPT !.members[nodule][name] = w.heap[f].original]
     ELSE w

\* The members of nodules x names, in the order the loops visit them.
Product(nodules, names) ==
  [i \in 1..(Len(nodules) * Len(names)) |->
     <<nodules[((i - 1) \div Len(names)) + 1], names[((i - 1) % Len(names)) + 1]>>]

\* the second loop without the chain branch of lines 142-145: every member
\* goes through shimmer.wrap
RECURSIVE wrapEachNoChain(_, _, _)
wrapEachNoChain(w, todo, factory) ==
  IF todo = <<>> THEN w
  ELSE LET nodule == Head(todo)[1]
           name == Head(todo)[2]
           f == w.members[nodule][name]
           w1 == [w EXCEPT !.heap[f].patched = TRUE]
       IN wrapEachNoChain(shimmerWrap(w1, nodule, name, factory), Tail(todo), factory)

\* Instrumenter.wrap, second loop, lines 135-162
RECURSIVE wrapEach(_, _, _)
wrapEach(w, todo, factory) ==
  IF todo = <<>> THEN w
  ELSE LET nodule == Head(todo)[1]
           name == Head(todo)[2]
           f == w.members[nodule][name]
           w1 == [w EXCEPT !.heap[f].patched = TRUE]
       IN IF w1.heap[f].hasWrapped
          THEN [w1 EXCEPT !.heap = Append([@ EXCEPT ![f].wrapped = Len(w1.heap) + 1],
                                          Produce(factory, w1.heap[f].wrapped))]
          ELSE wrapEach(shimmerWrap(w1, nodule, name, factory), Tail(todo), factory)

\* wrap that starts wrapping without the validation loop of lines 125-131
\* and throws at the first member that is not a function
wrapUnchecked(w, nodules, names, factory) ==
  LET todo == Product(nodules, names)
      bad == {i \in DOMAIN todo : ~IsFn(w.members[todo[i][1]][todo[i][2]])}
      stop == IF bad = {} THEN Len(todo) + 1 ELSE CHOOSE i \in bad : \A j \in bad : i <= j
      done == wrapEach(w, SubSeq(todo, 1, stop - 1), factory)
  IN IF bad = {} THEN done ELSE [done EXCEPT !.threw = TRUE]

\* Instrumenter.wrap, lines 119-163
wrap(w, nodules, names, factory) ==
  IF \E i \in DOMAIN nodules, j \in DOMAIN names : ~IsFn(w.members[nodules[i]][names[j]])
  THEN [w EXCEPT !.threw = TRUE]
  ELSE wrapEach(w, Product(nodules, names), factory)

\* unwrap without the assignment of line 172: the indirection keeps its value
RECURSIVE unwrapEachKeep(_, _)
unwrapEachKeep(w, todo) ==
  IF todo = <<>> THEN w
  ELSE LET nodule == Head(todo)[1]
           name == Head(todo)[2]
           w2 == shimmerUnwrap(w, nodule, name)
           g == w2.members[nodule][name]
           w3 == IF IsFn(g) THEN [w2 EXCEPT !.heap[g].patched = FALSE] ELSE w2
       IN unwrapEachKeep(w3, Tail(todo))

\* Instrumenter.unwrap, lines 165-178
RECURSIVE unwrapEach(_, _)
unwrapEach(w, todo) ==
  IF todo = <<>> THEN w
  ELSE LET nodule == Head(todo)[1]
           name == Head(todo)[2]
           f == w.members[nodule][name]
           w1 == IF IsFn(f)
                 THEN [w EXCEPT !.heap[f].hasWrapped = TRUE, !.heap[f].wrapped = Null]
                 ELSE w
           w2 == shimmerUnwrap(w1, nodule, name)
           g == w2.members[nodule][name]
           w3 == IF IsFn(g) THEN [w2 EXCEPT !.heap[g].patched = FALSE] ELSE w2
       IN unwrapEach(w3, Tail(todo))

unwrap(w, nodules, names) == unwrapEach(w, Product(nodules, names))

\* Instrumenter.prepatch, lines 256-271, for one staging request
\* {object, methods}
RECURSIVE prepatchEach(_, _, _)
prepatchEach(w, object, methods) ==
  IF methods = <<>> \/ w.threw THEN w
  ELSE LET w1 == wrap(w, <<object>>, <<Head(methods)>>, PrepatchFactory)
           f == w1.members[object][Head(methods)]
       IN IF w1.threw THEN w1
          ELSE prepatchEach([w1 EXCEPT !.heap[f].patched = FALSE], object, Tail(methods))

prepatch(w, object, methods) == prepatchEach(w, object, methods)

\* The functions an integration hands to wrapExport as wrapper, and the
\* value unwrapExport stores: the exports object itself.
Wrappers == {"W1", "W2"}
Self == "self"

\* Instrumenter.wrapExport, lines 180-195, on the record x of the exports
\* objects and the shims.  A shim remembers the exports object it forwards
\* to and the copy of _datadog_wrapper it got from the loop of lines 188-190
\* (Undefined when the exports object had no such property yet).
wrapExport(x, moduleExports, wrapper) ==
  IF ~x.exported[moduleExports].callable THEN x
  ELSE [x EXCEPT
          !.shims = Append(@, [of |-> moduleExports,
                               copied |-> x.exported[moduleExports].wrapper]),
          !.exported[moduleExports].wrapper = wrapper]

\* unwrapExport that deletes _datadog_wrapper instead of resetting it
unwrapExportDelete(x, moduleExports) ==
  [x EXCEPT !.exported[moduleExports].wrapper = Undefined]

\* Instrumenter.unwrapExport, lines 197-203
unwrapExport(x, moduleExports) ==
  IF x.exported[moduleExports].wrapper # Undefined
  THEN [x EXCEPT !.exported[moduleExports].wrapper = Self]
  ELSE x

\* What a call of shim k runs (line 185): the function stored in the exports
\* object's _datadog_wrapper, which is the exports object itself after a
\* reset; "crash" when the property is missing.
InvokeShim(ex, sh, k) ==
  LET wrapper == ex[sh[k].of].wrapper
  IN IF wrapper = Undefined THEN <<"crash">>
     ELSE IF wrapper = Self THEN <<"export">>
     ELSE <<wrapper>>

\* -------------------------------------------------------------- actions
Op(name, x, y) == [name |-> name, x |-> x, y |-> y]

\* The record the operations work on, at the start of a call.
Start ==
  [env |-> env, enabled |-> _enabled, plugins |-> _plugins,
   instrumented |-> _instrumented, disabledPlugins |-> _disabledPlugins,
   modules |-> modules, hooked |-> hooked, nPatch |-> nPatch,
   calls |-> <<>>, threw |-> FALSE]

\* The state a call leaves behind.
Finish(st, o) ==
  /\ _enabled' = st.enabled
  /\ _plugins' = st.plugins
  /\ _instrumented' = st.instrumented
  /\ modules' = st.modules
  /\ hooked' = st.hooked
  /\ nPatch' = st.nPatch
  /\ calls' = st.calls
  /\ threw' = st.threw
  /\ op' = o
  /\ UNCHANGED <<env, _disabledPlugins, wrapVars, resolved, exportVars, nestVars>>

UnitsOf(plugin) == {concat(plugin)[i] : i \in DOMAIN concat(plugin)}
\* The pairs a call on these units can hand to a capability.
Loaded(us) == {p \in Pairs : p[1] \in us /\ p[2] \in modules}
Held(us) == {p \in Pairs : p[1] \in us /\ p[1] \in DOMAIN _instrumented
                           /\ p[2] \in _instrumented[p[1]]}

\* The pairs a call on these units can hand to the patch capability: the
\* loaded ones not yet in the InstrumentedSet.
Fresh(us) == Loaded(us) \ Held(us)
\* The behaviours of the patch capability that matter to one call: the
\* sets of pairs it throws on.
Throwing(ps) == SUBSET ps
\* The behaviours of the unpatch capability explored in one call: it
\* throws on no pair, or on every pair.
Unpatching == {{}, Pairs}
\* unpatch runs under load only after a throw.
Recovering(pt, lt) == IF pt = {} /\ ~lt THEN {{}} ELSE Unpatching

\* constructor, lines 64-73
Init ==
  /\ env = EnvOrch
  /\ _enabled = FALSE
  /\ _plugins = EmptyMap
  /\ _instrumented = EmptyMap
  /\ _disabledPlugins \in {collectDisabledPlugins(d) : d \in DisabledSettings}
  /\ modules = {}
  /\ hooked = FALSE
  /\ nPatch = [u \in Units |-> [e \in Exports |-> 0]]
  /\ op = Op("constructor", Undefined, NoExports)
  /\ calls = <<>>
  /\ threw = FALSE
  /\ members = [n \in {"A", "B"} |-> [m \in {"f", "g"} |-> Missing]]
  /\ heap = <<>>
  /\ shimmed = 0
  /\ wargs = <<>>
  /\ ncalls = 0
  /\ resolved = NotResolved
  /\ exported = [e \in ExportIds |-> [callable |-> TRUE, wrapper |-> Undefined]]
  /\ shims = <<>>
  /\ frames = <<>>
  /\ nNotified = [u \in Units |-> [e \in Exports |-> 0]]

UseConfigs == {CfgBool("true")}

Use(name, config) ==
  LET us == UnitsOf(lookup(toLowerCase(name)))
  IN \E pt \in (IF _enabled THEN Throwing(Fresh(us)) ELSE {{}}),
        lt \in (IF _enabled /\ lookup(toLowerCase(name)) = Undefined THEN BOOLEAN ELSE {FALSE}) :
      \E ut \in Recovering(pt, lt) :
       Finish(use(Start, name, config, pt, ut, lt), Op("use", name, NoExports))

Enable(registerPlugins) ==
  \E pt \in (IF registerPlugins THEN Throwing(Fresh(Units)) ELSE {{}}) :
   \E ut \in Recovering(pt, FALSE) :
    Finish(enable(Start, registerPlugins, pt, ut, FALSE),
           Op("enable", IF registerPlugins THEN "plugins" ELSE "noplugins", NoExports))

Disable ==
  \E ut \in Unpatching :
    Finish(disable(Start, ut), Op("disable", Undefined, NoExports))

\* The Load Hook sees a component load (or load again) and hands its
\* exports object to Instrumenter.patch for every matching instrumentation
\* unit of every registered plugin, with the plugin's config.
RECURSIVE hookEach(_, _, _, _)
hookEach(st, instrumentations, moduleExports, pt) ==
  IF instrumentations = <<>> \/ st.threw THEN st
  ELSE LET i == Head(instrumentations)
           p == CHOOSE q \in DOMAIN st.plugins : i \in {concat(q)[k] : k \in DOMAIN concat(q)}
       IN hookEach(patch(st, i, moduleExports, st.plugins[p].config, pt),
                   Tail(instrumentations), moduleExports, pt)

hookModule(st, moduleExports, pt) ==
  LET s1 == [st EXCEPT !.modules = @ \cup {moduleExports}]
      watched == SelectSeq(UnitOrder,
                   LAMBDA u : /\ moduleExports \in Matches(u)
                              /\ \E q \in DOMAIN st.plugins :
                                   u \in {concat(q)[k] : k \in DOMAIN concat(q)})
  IN IF st.hooked THEN hookEach(s1, watched, moduleExports, pt) ELSE s1

ModuleLoad(e) ==
  \E pt \in Throwing({p \in Pairs \ Held(Units) : p[2] = e}) :
    Finish(hookModule(Start, e, pt), Op("moduleLoad", Undefined, e))

Load(plugin) ==
  /\ plugin \in DOMAIN _plugins
  /\ \E pt \in (IF _enabled THEN Throwing(Fresh(UnitsOf(plugin))) ELSE {{}}),
        lt \in (IF _enabled /\ plugin = Undefined THEN BOOLEAN ELSE {FALSE}) :
      \E ut \in Recovering(pt, lt) :
       Finish(load(Start, plugin, _plugins[plugin], pt, ut, lt), Op("load", plugin, NoExports))

Unload(plugin) ==
  \E ut \in Unpatching :
    Finish(unload(Start, plugin, ut), Op("unload", plugin, NoExports))

Unpatch(u) ==
  \E ut \in Unpatching :
    Finish(unpatch(Start, u, ut), Op("unpatch", u, NoExports))

Next ==
  \/ \E name \in UseNames, config \in UseConfigs : Use(name, config)
  \/ \E registerPlugins \in BOOLEAN : Enable(registerPlugins)
  \/ Disable
  \/ \E e \in Exports : ModuleLoad(e)
  \/ \E plugin \in {"PFoo", "B1", Undefined} : Load(plugin)
  \/ \E plugin \in {"PFoo", "B1"} : Unload(plugin)
  \/ \E u \in Units : Unpatch(u)

Spec == Init /\ [][Next]_vars

\* ----------------------------------------------------- wrap engine runs
\* The nodules and the names a call can be given.
NoduleArgs == {<<"A">>, <<"B">>, <<"A", "B">>}
NameArgs == {<<"f">>, <<"g">>, <<"f", "g">>}
Slots == Product(Nodules, Names)

WStart == [members |-> members, heap |-> heap, shimmed |-> 0, threw |-> FALSE]

\* The state a wrap engine call leaves behind, in a run of at most max calls.
WStep(w, o, nodules, names, max) ==
  /\ members' = w.members
  /\ heap' = w.heap
  /\ shimmed' = w.shimmed
  /\ threw' = w.threw
  /\ op' = o
  /\ wargs' = <<nodules, names>>
  /\ ncalls < max
  /\ ncalls' = ncalls + 1
  /\ calls' = <<>>
  /\ UNCHANGED <<orchVars, resolved, exportVars, nestVars>>

WFinish(w, o, nodules, names) == WStep(w, o, nodules, names, MaxWrapCalls)

\* Two nodules whose members f and g are each absent, a value that is not
\* a function, or a library function.
InitWrap ==
  /\ env = EnvOrch
  /\ _enabled = FALSE
  /\ _plugins = EmptyMap
  /\ _instrumented = EmptyMap
  /\ _disabledPlugins = {}
  /\ modules = {}
  /\ hooked = FALSE
  /\ nPatch = [u \in Units |-> [e \in Exports |-> 0]]
  /\ op = Op("constructor", Undefined, NoExports)
  /\ calls = <<>>
  /\ threw = FALSE
  /\ shimmed = 0
  /\ wargs = <<>>
  /\ ncalls = 0
  /\ resolved = NotResolved
  /\ exported = [e \in ExportIds |-> [callable |-> TRUE, wrapper |-> Undefined]]
  /\ shims = <<>>
  /\ frames = <<>>
  /\ nNotified = [u \in Units |-> [e \in Exports |-> 0]]
  /\ \E shape \in [DOMAIN Slots -> {Missing, NonFn, 1}] :
       LET fns == {i \in DOMAIN Slots : shape[i] = 1}
           idOf(i) == Cardinality({j \in fns : j <= i})
       IN /\ heap = [k \in 1..Cardinality(fns) |-> BaseFn]
          /\ members = [n \in {"A", "B"} |-> [m \in {"f", "g"} |->
                          LET i == CHOOSE k \in DOMAIN Slots : Slots[k] = <<n, m>>
                          IN IF shape[i] = 1 THEN idOf(i) ELSE shape[i]]]

Wrap(nodules, names, factory) ==
  WFinish(wrap(WStart, nodules, names, factory), Op("wrap", factory, NoExports),
          nodules, names)

Unwrap(nodules, names) ==
  WFinish(unwrap(WStart, nodules, names), Op("unwrap", Undefined, NoExports), nodules, names)

PrepatchStep(object, methods) ==
  WFinish(prepatch(WStart, object, methods), Op("prepatch", Undefined, NoExports),
          <<object>>, methods)

NextWrap ==
  \/ \E nodules \in NoduleArgs, names \in NameArgs, factory \in Factories :
       Wrap(nodules, names, factory)
  \/ \E nodules \in NoduleArgs, names \in NameArgs : Unwrap(nodules, names)
  \/ \E object \in {"A", "B"}, methods \in NameArgs : PrepatchStep(object, methods)

SpecWrap == InitWrap /\ [][NextWrap]_vars

\* ------------------------------------------- wrap engine runs, one object
\* Longer runs over the single object A, whose methods f and g are library
\* functions: an integration stages them with prepatch, wraps, wraps again
\* and unwraps.
SFinish(w, o, names) == WStep(w, o, <<"A">>, names, MaxStageCalls)

InitStage ==
  /\ env = EnvOrch
  /\ _enabled = FALSE
  /\ _plugins = EmptyMap
  /\ _instrumented = EmptyMap
  /\ _disabledPlugins = {}
  /\ modules = {}
  /\ hooked = FALSE
  /\ nPatch = [u \in Units |-> [e \in Exports |-> 0]]
  /\ op = Op("constructor", Undefined, NoExports)
  /\ calls = <<>>
  /\ threw = FALSE
  /\ shimmed = 0
  /\ wargs = <<>>
  /\ ncalls = 0
  /\ resolved = NotResolved
  /\ exported = [e \in ExportIds |-> [callable |-> TRUE, wrapper |-> Undefined]]
  /\ shims = <<>>
  /\ frames = <<>>
  /\ nNotified = [u \in Units |-> [e \in Exports |-> 0]]
  /\ heap = <<BaseFn, BaseFn>>
  /\ members = [n \in {"A", "B"} |-> [m \in {"f", "g"} |->
                  IF n = "A" THEN (IF m = "f" THEN 1 ELSE 2) ELSE Missing]]

StageWrap(names, factory) ==
  SFinish(wrap(WStart, <<"A">>, names, factory), Op("wrap", factory, NoExports), names)

StageUnwrap(names) ==
  SFinish(unwrap(WStart, <<"A">>, names), Op("unwrap", Undefined, NoExports), names)

StagePrepatch(methods) ==
  SFinish(prepatch(WStart, "A", methods), Op("prepatch", Undefined, NoExports), methods)

NextStage ==
  \/ \E names \in NameArgs, factory \in Factories : StageWrap(names, factory)
  \/ \E names \in NameArgs : StageUnwrap(names)
  \/ \E methods \in NameArgs : StagePrepatch(methods)

SpecStage == InitStage /\ [][NextStage]_vars

\* ------------------------------------------------- nested patch calls
\* The Load Hook calls patch while patch capabilities are running: a
\* capability that loads a component makes the hook call patch again, on
\* the same thread, before the capability returns.
InitNested ==
  /\ env = EnvOrch
  /\ _enabled = TRUE
  /\ _plugins = EmptyMap
  /\ _instrumented = EmptyMap
  /\ _disabledPlugins = {}
  /\ modules = {}
  /\ hooked = TRUE
  /\ nPatch = [u \in Units |-> [e \in Exports |-> 0]]
  /\ op = Op("constructor", Undefined, NoExports)
  /\ calls = <<>>
  /\ threw = FALSE
  /\ members = [n \in {"A", "B"} |-> [m \in {"f", "g"} |-> Missing]]
  /\ heap = <<>>
  /\ shimmed = 0
  /\ wargs = <<>>
  /\ ncalls = 0
  /\ resolved = NotResolved
  /\ exported = [e \in ExportIds |-> [callable |-> TRUE, wrapper |-> Undefined]]
  /\ shims = <<>>
  /\ frames = <<>>
  /\ nNotified = [u \in Units |-> [e \in Exports |-> 0]]

NStart == [instrumented |-> _instrumented, nPatch |-> nPatch, frames |-> frames]

\* A call of patch(u, e), from the top level or from inside the innermost
\* running capability.
PatchCall(u, e) ==
  LET st == patchEnter(NStart, u, e)
  IN /\ ~threw
     /\ Len(st.frames) <= MaxDepth
     /\ _instrumented' = st.instrumented
     /\ nPatch' = st.nPatch
     /\ frames' = st.frames
     /\ nNotified' = [nNotified EXCEPT ![u][e] = Bump(@)]
     /\ op' = Op("patch", u, e)
     /\ UNCHANGED <<env, _enabled, _plugins, _disabledPlugins, modules, hooked,
                    calls, threw, wrapVars, resolved, exportVars>>

\* The innermost running capability returns or throws, and with it the
\* call of patch that invoked it (line 282).  While an exception is on its
\* way out, a frame can only be left by throwing.
PatchReturn(ok) ==
  /\ frames # <<>>
  /\ threw => ~ok
  /\ frames' = SubSeq(frames, 1, Len(frames) - 1)
  /\ threw' = ~ok
  /\ op' = Op("return", frames[Len(frames)][1], frames[Len(frames)][2])
  /\ UNCHANGED <<orchVars, calls, wrapVars, resolved, exportVars, nNotified>>

\* The caller of a patch that threw (a capability, or the hook at the top
\* level) handles the exception.
CatchThrow ==
  /\ threw
  /\ threw' = FALSE
  /\ op' = Op("catch", Undefined, NoExports)
  /\ UNCHANGED <<orchVars, calls, wrapVars, resolved, exportVars, nestVars>>

NextNested ==
  \/ \E p \in Pairs : PatchCall(p[1], p[2])
  \/ \E ok \in BOOLEAN : PatchReturn(ok)
  \/ CatchThrow

SpecNested == InitNested /\ [][NextNested]_vars

\* ---------------------------------------------------- wrapExport runs
XStart == [exported |-> exported, shims |-> shims, threw |-> FALSE]

XFinish(x, o) ==
  /\ exported' = x.exported
  /\ shims' = x.shims
  /\ threw' = x.threw
  /\ op' = o
  /\ ncalls < MaxExportCalls
  /\ ncalls' = ncalls + 1
  /\ calls' = <<>>
  /\ UNCHANGED <<orchVars, members, heap, shimmed, wargs, resolved, nestVars>>

\* Two exports objects, each a function or not.
InitExport ==
  /\ env = EnvOrch
  /\ _enabled = FALSE
  /\ _plugins = EmptyMap
  /\ _instrumented = EmptyMap
  /\ _disabledPlugins = {}
  /\ modules = {}
  /\ hooked = FALSE
  /\ nPatch = [u \in Units |-> [e \in Exports |-> 0]]
  /\ op = Op("constructor", Undefined, NoExports)
  /\ calls = <<>>
  /\ threw = FALSE
  /\ members = [n \in {"A", "B"} |-> [m \in {"f", "g"} |-> Missing]]
  /\ heap = <<>>
  /\ shimmed = 0
  /\ wargs = <<>>
  /\ ncalls = 0
  /\ resolved = NotResolved
  /\ \E fns \in SUBSET ExportIds :
       exported = [e \in ExportIds |-> [callable |-> e \in fns, wrapper |-> Undefined]]
  /\ shims = <<>>
  /\ frames = <<>>
  /\ nNotified = [u \in Units |-> [e \in Exports |-> 0]]

WrapExport(moduleExports, wrapper) ==
  XFinish(wrapExport(XStart, moduleExports, wrapper), Op("wrapExport", wrapper, moduleExports))

UnwrapExport(moduleExports) ==
  XFinish(unwrapExport(XStart, moduleExports), Op("unwrapExport", Undefined, moduleExports))

NextExport ==
  \/ \E moduleExports \in ExportIds, wrapper \in Wrappers : WrapExport(moduleExports, wrapper)
  \/ \E moduleExports \in ExportIds : UnwrapExport(moduleExports)

SpecExport == InitExport /\ [][NextExport]_vars

\* ------------------------------------------------- configuration runs
\* getConfig applied to a name and caller-supplied overrides, under every
\* setting of the integration's three environment variables.
EnabledSettings == {Undefined, "true", "false"}
RateSettings == {Undefined, "", "0.3", "1.5", "-1", "abc"}
ResolveNames == {"", "foo", "FOO"}
ResolveOverrides ==
  {EmptyConfig,
   [enabled |-> "true", analytics |-> ABool(TRUE)],
   [enabled |-> Undefined, analytics |-> ANum(30)]}

InitConfig ==
  /\ \E en \in {Undefined, "false"}, ae \in EnabledSettings, sr \in RateSettings :
       env = [EnvNone EXCEPT ![<<"FOO", "ENABLED">>] = en,
                             ![<<"FOO", "ANALYTICS_ENABLED">>] = ae,
                             ![<<"FOO", "ANALYTICS_SAMPLE_RATE">>] = sr]
  /\ _enabled = FALSE
  /\ _plugins = EmptyMap
  /\ _instrumented = EmptyMap
  /\ _disabledPlugins = {}
  /\ modules = {}
  /\ hooked = FALSE
  /\ nPatch = [u \in Units |-> [e \in Exports |-> 0]]
  /\ op = Op("constructor", Undefined, NoExports)
  /\ calls = <<>>
  /\ threw = FALSE
  /\ members = [n \in {"A", "B"} |-> [m \in {"f", "g"} |-> Missing]]
  /\ heap = <<>>
  /\ shimmed = 0
  /\ wargs = <<>>
  /\ ncalls = 0
  /\ resolved = NotResolved
  /\ exported = [e \in ExportIds |-> [callable |-> TRUE, wrapper |-> Undefined]]
  /\ shims = <<>>
  /\ frames = <<>>
  /\ nNotified = [u \in Units |-> [e \in Exports |-> 0]]

GetConfig(name, config) ==
  /\ resolved' = [name |-> name, overrides |-> config,
                  config |-> getConfig(env, name, config)]
  /\ op' = Op("getConfig", name, NoExports)
  /\ calls' = <<>>
  /\ threw' = FALSE
  /\ UNCHANGED <<orchVars, wrapVars, exportVars, nestVars>>

NextConfig == \E name \in ResolveNames, config \in ResolveOverrides : GetConfig(name, config)

SpecConfig == InitConfig /\ [][NextConfig]_vars

\* ------------------------------------------------- reading the call log
IsHeld(ins, u, e) == u \in DOMAIN ins /\ e \in ins[u]
CatalogPlugins == {plugins[name] : name \in DOMAIN plugins}
AllPlugins == CatalogPlugins \cup {Undefined}
Registered(reg, plugin) == plugin \in DOMAIN reg
NoEntries(ins, plugin) == UnitsOf(plugin) \cap DOMAIN ins = {}

\* A patch capability, or the Loader's load step, threw for a unit of plugin.
FailedFor(cs, plugin) ==
  \E i \in DOMAIN cs : cs[i].c \in {"patch", "load"} /\ ~cs[i].ok /\ cs[i].u \in UnitsOf(plugin)
Reloads(cs) == {i \in DOMAIN cs : cs[i].c = "reload"}
\* The capability c was invoked on (u, e) exactly n times.
Invoked(cs, c, u, e) == Cardinality({i \in DOMAIN cs : cs[i].c = c /\ cs[i].u = u /\ cs[i].e = e})
\* reload was invoked exactly once, as the call's last step, with registry reg.
ReloadedOnceWith(cs, reg) ==
  /\ Cardinality(Reloads(cs)) = 1
  /\ cs[Len(cs)].c = "reload"
  /\ cs[Len(cs)].reg = reg

\* What invoking function object f of heap h runs.
Invoke(h, f) == Run(h, f, Len(h) + 1)
\* The members a call with these arguments names.
Batch(args) == {<<args[1][i], args[2][j]>> : i \in DOMAIN args[1], j \in DOMAIN args[2]}

\* ---------------------------------------------------------------- claims

\* C1 (at-most-once patch): between two unloads of a unit U, U's patch
\* capability is invoked on an exports object E at most once, and E is in
\* U's InstrumentedSet exactly when that one invocation has happened, so
\* every later patch(U, E) finds E there and invokes nothing.
C1_AtMostOncePatch ==
  \A p \in Pairs :
    /\ nPatch[p[1]][p[2]] <= 1
    /\ IsHeld(_instrumented, p[1], p[2]) <=> nPatch[p[1]][p[2]] = 1

\* C1 witness: the Load Hook notified exports 2 again while F1 is registered
\* and already holds it, and the call invoked nothing.
C1_Witness ==
  /\ op = Op("moduleLoad", Undefined, 2)
  /\ hooked /\ Registered(_plugins, "PFoo")
  /\ IsHeld(_instrumented, "F1", 2) /\ nPatch["F1"][2] = 1
  /\ calls = <<>>

\* C2 (disabled precedence), as claimed: a catalog integration whose name is
\* in the Disabled-Set has no RegistrationEntry, is never handed to the
\* Loader, and none of its units is patched or holds an InstrumentedSet entry.
C2_DisabledPrecedence ==
  \A name \in DOMAIN plugins :
    name \in _disabledPlugins =>
      /\ ~Registered(_plugins, plugins[name])
      /\ NoEntries(_instrumented, plugins[name])
      /\ \A i \in DOMAIN calls : calls[i].u \notin UnitsOf(plugins[name])

C5_AtomicWrap ==
  [][(/\ op'.name = "wrap"
      /\ \E i \in DOMAIN wargs'[1], j \in DOMAIN wargs'[2] :
           ~IsFn(members[wargs'[1][i]][wargs'[2][j]]))
     => /\ threw'
        /\ members' = members
        /\ heap' = heap
        /\ shimmed' = 0]_vars

\* C5 witness: wrap([A, B], [f, g]) threw with B.g absent while A.f, A.g and
\* B.f are functions that carry no marker, A.f being a wrapper installed by an
\* earlier call.
C5_Witness ==
  /\ op.name = "wrap" /\ threw
  /\ wargs = << <<"A", "B">>, <<"f", "g">> >>
  /\ members["B"]["g"] = Missing
  /\ \A slot \in {<<"A", "f">>, <<"A", "g">>, <<"B", "f">>} :
       /\ IsFn(members[slot[1]][slot[2]])
       /\ ~heap[members[slot[1]][slot[2]]].patched
  /\ heap[members["A"]["f"]].kind = "prepatch"

\* C6 (disable): a disable() step invokes the unpatch capability exactly once
\* for every (unit, exports) pair that was in the InstrumentedSet and for no
\* other pair, leaves the Registry empty and the engine disabled, invokes
\* reload exactly once, last, with the empty registry, and does not throw,
\* whether or not an unpatch capability throws.
C6_Disable ==
  [][op'.name = "disable" =>
       /\ \A p \in Pairs :
            Invoked(calls', "unpatch", p[1], p[2])
              = IF IsHeld(_instrumented, p[1], p[2]) THEN 1 ELSE 0
       /\ _plugins' = EmptyMap
       /\ ~_enabled'
       /\ ReloadedOnceWith(calls', EmptyMap)
       /\ ~threw']_vars

\* C6 witness: disable() ran over two instrumented pairs of F1 and one of
\* B1, every unpatch capability threw, and the registry ended empty.
C6_Witness ==
  /\ op.name = "disable"
  /\ \A p \in {<<"F1", 1>>, <<"F1", 2>>, <<"B1", 0>>} :
       \E i \in DOMAIN calls :
         calls[i].c = "unpatch" /\ calls[i].u = p[1] /\ calls[i].e = p[2] /\ ~calls[i].ok
  /\ _plugins = EmptyMap /\ ~_enabled

\* C7 (enable): an enable() step that registers plugins leaves the engine
\* enabled; every catalog integration whose name is not in the Disabled-Set
\* and whose load did not fail is registered afterwards; every entry that
\* existed before is still there with the same name and config; and reload is
\* invoked exactly once, last, with the resulting registry.
C7_Enable ==
  [][(op'.name = "enable" /\ op'.x = "plugins") =>
       /\ _enabled'
       /\ \A name \in DOMAIN plugins :
            (name \notin _disabledPlugins /\ ~FailedFor(calls', plugins[name]))
              => Registered(_plugins', plugins[name])
       /\ \A plugin \in DOMAIN _plugins :
            Registered(_plugins', plugin) /\ _plugins'[plugin] = _plugins[plugin]
       /\ ReloadedOnceWith(calls', _plugins')
       /\ ~threw']_vars

\* C7 witness: enable() where foo's load threw (so foo is unregistered), bar,
\* which comes after it, is registered, and an entry made earlier by
\* use("nope") is still there.
C7_Witness ==
  /\ op.name = "enable" /\ op.x = "plugins"
  /\ FailedFor(calls, "PFoo") /\ ~Registered(_plugins, "PFoo")
  /\ Registered(_plugins, "B1") /\ _plugins["B1"].name = "bar"
  /\ Registered(_plugins, Undefined)

\* C8 (reload trigger), as claimed: after use(name) of a catalog integration
\* on an enabled engine, reload was invoked exactly once and the registry it
\* was given has an entry for that integration.
C8_ReloadTrigger ==
  (op.name = "use" /\ _enabled /\ lookup(toLowerCase(op.x)) # Undefined) =>
    /\ Cardinality(Reloads(calls)) = 1
    /\ \A i \in Reloads(calls) : Registered(calls[i].reg, lookup(toLowerCase(op.x)))

\* C8, amended: reload is invoked exactly once, as the call's last step, with
\* the registry as the call leaves it; that registry has an entry for the
\* integration, under the name given, when the name as given is not in the
\* Disabled-Set and the integration's load did not throw, and has no entry
\* for it when the load threw.
C8_ReloadTriggerAmended ==
  (op.name = "use" /\ _enabled /\ lookup(toLowerCase(op.x)) # Undefined) =>
    LET plugin == lookup(toLowerCase(op.x))
    IN /\ ReloadedOnceWith(calls, _plugins)
       /\ (op.x \notin _disabledPlugins /\ ~FailedFor(calls, plugin))
            => (Registered(_plugins, plugin) /\ _plugins[plugin].name = op.x)
       /\ FailedFor(calls, plugin) => ~Registered(_plugins, plugin)

\* C8 witness: use("bar") on an enabled engine patched bar's loaded exports
\* and then reloaded once with a registry that holds bar.
C8_Witness ==
  /\ op = Op("use", "bar", NoExports) /\ _enabled
  /\ Invoked(calls, "patch", "B1", 0) = 1
  /\ ReloadedOnceWith(calls, _plugins)
  /\ Registered(_plugins, "B1") /\ _plugins["B1"].name = "bar"

\* C9 (unknown name), as claimed: a use() step with a name that has no
\* catalog entry does not throw and changes neither the Registry nor the
\* InstrumentedSet.
C9_UnknownNameNoOp ==
  [][(op'.name = "use" /\ lookup(toLowerCase(op'.x)) = Undefined) =>
       /\ ~threw'
       /\ _plugins' = _plugins
       /\ _instrumented' = _instrumented]_vars

\* C10 (InstrumentedSet lifecycle), as claimed, read on the last call once
\* it has returned: an exports object on which the unit's unpatch capability
\* ran, or on which its patch capability threw, and that was not patched
\* successfully later in the call, is not in the unit's InstrumentedSet.
C10_Lifecycle ==
  ~threw =>
    \A i \in DOMAIN calls :
      (/\ \/ calls[i].c = "unpatch"
          \/ calls[i].c = "patch" /\ ~calls[i].ok
       /\ ~\E j \in DOMAIN calls :
             /\ j > i /\ calls[j].c = "patch" /\ calls[j].ok
             /\ calls[j].u = calls[i].u /\ calls[j].e = calls[i].e)
      => ~IsHeld(_instrumented, calls[i].u, calls[i].e)

\* C11 (unwrap leaves a clean member), as claimed: an unwrap step does not
\* throw, also over absent members, and leaves every function member it names
\* without the patched marker and without the wrapped-original indirection,
\* so a wrap that directly follows it and names that member makes an
\* invocation of the member run the wrapper of the factory given to that wrap.
C11_UnwrapClean ==
  [][/\ op'.name = "unwrap" =>
          /\ ~threw'
          /\ \A slot \in Batch(wargs') :
               IsFn(members'[slot[1]][slot[2]]) =>
                 ~heap'[members'[slot[1]][slot[2]]].patched
     /\ (op.name = "unwrap" /\ op'.name = "wrap" /\ ~threw') =>
          \A slot \in Batch(wargs) \cap Batch(wargs') :
            Head(Invoke(heap', members'[slot[1]][slot[2]])) = op'.x]_vars

\* Two consecutive calls of wrap, neither of which threw, on the same single
\* member with two different factories.
WrappedTwice(slot) ==
  /\ op.name = "wrap" /\ op'.name = "wrap"
  /\ ~threw /\ ~threw'
  /\ op.x # op'.x
  /\ Batch(wargs) = {slot} /\ Batch(wargs') = {slot}

C13_BestEffortUnpatch ==
  [][op'.name = "unpatch" =>
       /\ ~threw'
       /\ \A e \in Exports :
            Invoked(calls', "unpatch", op'.x, e)
              = IF IsHeld(_instrumented, op'.x, e) THEN 1 ELSE 0
       /\ \A i \in DOMAIN calls' : calls'[i].c = "unpatch" /\ calls'[i].u = op'.x
       /\ op'.x \notin DOMAIN _instrumented =>
            /\ calls' = <<>>
            /\ UNCHANGED orchVars]_vars

\* C13 witness: unpatch(F1) with exports 1 and 2 in F1's InstrumentedSet,
\* where the unpatch capability threw on 1 and was still invoked on 2.
C13_Witness ==
  /\ op = Op("unpatch", "F1", NoExports) /\ ~threw
  /\ IsHeld(_instrumented, "F1", 1) /\ IsHeld(_instrumented, "F1", 2)
  /\ Len(calls) = 2
  /\ calls[1].c = "unpatch" /\ calls[1].e = 1 /\ ~calls[1].ok
  /\ calls[2].c = "unpatch" /\ calls[2].e = 2

\* C14 (reload on every registry change), as claimed: a call that returns
\* and changes the set of RegistrationEntries while the engine is enabled
\* (before or after the call) has invoked reload, as its last step, with the
\* registry it leaves behind.
C14_ReloadOnChange ==
  [][(/\ ~threw'
      /\ _enabled \/ _enabled'
      /\ _plugins' # _plugins)
     => /\ calls' # <<>>
        /\ calls'[Len(calls')].c = "reload"
        /\ calls'[Len(calls')].reg = _plugins']_vars

\* C15 (analytics precedence), as claimed: getConfig for a non-empty name
\* gives analytics = false when ANALYTICS_ENABLED is explicitly false;
\* otherwise the rate clamped to [0, 1] when ANALYTICS_SAMPLE_RATE is a
\* number; otherwise true when ANALYTICS_ENABLED is explicitly true; and
\* otherwise leaves analytics as the overrides had it.
C15_AnalyticsPrecedence ==
  (op.name = "getConfig" /\ resolved.name # "") =>
    LET ae == cleanEnv(env, resolved.name, "ANALYTICS_ENABLED")
        sr == cleanEnv(env, resolved.name, "ANALYTICS_SAMPLE_RATE")
        numeric == sr \in {"0", "0.3", "0.5", "1", "1.5", "-1"}
        rate == ToNumber(sr).val
        clamped == IF rate < 0 THEN 0 ELSE IF rate > 100 THEN 100 ELSE rate
        out == resolved.config.analytics
    IN IF ae = "false" THEN out = ABool(FALSE)
       ELSE IF numeric THEN out = ANum(clamped)
       ELSE IF ae = "true" THEN out = ABool(TRUE)
       ELSE out = resolved.overrides.analytics

\* C16 (unwrapExport resets): an unwrapExport step does not throw; it leaves
\* an exports object that had a stored wrapper with that reference reset to
\* the exports object itself, not removed, so that a call of any shim
\* wrapExport returned for it runs the original export and no wrapper; and
\* an unwrapExport that directly follows an unwrapExport of the same object
\* changes nothing.
C16_UnwrapExport ==
  [][op'.name = "unwrapExport" =>
       /\ ~threw'
       /\ exported[op'.y].wrapper # Undefined => exported'[op'.y].wrapper = Self
       /\ \A k \in DOMAIN shims' :
            shims'[k].of = op'.y => InvokeShim(exported', shims', k) = <<"export">>
       /\ (op.name = "unwrapExport" /\ op.y = op'.y) => UNCHANGED exportVars]_vars

\* C16 witness: wrapExport(E1, W1) returned a shim, and after two calls of
\* unwrapExport(E1) a call of the shim runs the original export.
C16_Witness ==
  /\ op.name = "unwrapExport" /\ op.y = "E1"
  /\ ncalls = 3
  /\ shims = << [of |-> "E1", copied |-> Undefined] >>
  /\ exported["E1"].wrapper = Self /\ exported["E2"].wrapper = Undefined
  /\ ~exported["E2"].callable
  /\ InvokeShim(exported, shims, 1) = <<"export">>

\* C17 (wrap covers the whole batch), as claimed: after a wrap step that
\* did not throw, over members that each either carry no wrapped-original
\* indirection or carry a live one (staged by prepatch, possibly chain-wrapped
\* since), an invocation of every member of the batch runs a wrapper made by
\* the factory given to the call.
C17_WrapWholeBatch ==
  [][(/\ op'.name = "wrap" /\ ~threw'
      /\ \A slot \in Batch(wargs') :
           LET f == members[slot[1]][slot[2]]
           IN IsFn(f) /\ (heap[f].hasWrapped => heap[f].wrapped # Null))
     => \A slot \in Batch(wargs') :
          Head(Invoke(heap', members'[slot[1]][slot[2]])) = op'.x]_vars

C19_ReentrantPatch ==
  [][/\ (op'.name = "patch"
          /\ \E i \in DOMAIN frames : frames[i] = <<op'.x, op'.y>>)
         => /\ nPatch' = nPatch
            /\ frames' = frames
            /\ _instrumented' = _instrumented
     /\ \A p \in Pairs :
          /\ nPatch'[p[1]][p[2]] = IF nNotified'[p[1]][p[2]] > 0 THEN 1 ELSE 0
          /\ IsHeld(_instrumented', p[1], p[2]) <=> nNotified'[p[1]][p[2]] > 0]_vars

\* C19 witness: while F1's capability runs for exports 1, and B1's inside it
\* for exports 0, patch was called for (F1, 1) again and invoked nothing.
C19_Witness ==
  /\ op.name = "patch" /\ op.x = "F1" /\ op.y = 1
  /\ frames = << <<"F1", 1>>, <<"B1", 0>> >>
  /\ nNotified["F1"][1] = 2
  /\ nPatch["F1"][1] = 1 /\ nPatch["B1"][0] = 1

\* C20 (disable / enable round trip), as claimed: when enable() directly
\* follows disable(), every loaded exports object that a unit held before
\* the disable (so that disable ran the unit's unpatch capability on it), and
\* whose integration is registered again, is handed to the unit's patch
\* capability again during the enable.
C20_RoundTrip ==
  [][(op.name = "disable" /\ op'.name = "enable" /\ op'.x = "plugins" /\ ~threw') =>
       \A p \in Pairs :
         (/\ Invoked(calls, "unpatch", p[1], p[2]) = 1
          /\ p[2] \in modules
          /\ \E plugin \in DOMAIN _plugins' : p[1] \in UnitsOf(plugin))
         => Invoked(calls', "patch", p[1], p[2]) = 1]_vars

====
